---- MODULE Spec2Model ----
(***************************************************************************)
(* Model of the retry/backoff layer of terraform-provider-st-digicert:     *)
(*   - the AliCloud DNS wrappers DeleteDnsRecord and CreateAliDNSRecord    *)
(*     (digicert/dns/platform/alicloud/dns/dnsrr.go),                      *)
(*   - the Retry Operator backoff_retry.RetryOperator and the Error        *)
(*     Classifier alicloud.IsPermanentCommonError they call; their code is *)
(*     not among the source files, they are modelled from spec.md 4.1/4.2, *)
(*   - the DigiCert operations CancelOrderRequest, RevokeCert and          *)
(*     RevokeAllCert of package digicertapi.                               *)
(* Time is a discrete clock of abstract ticks. Error texts are sequences   *)
(* of characters over a small alphabet.                                    *)
(***************************************************************************)
EXTENDS Integers, Sequences, FiniteSets, TLC

VARIABLES
    fn,              \* the wrapper being called ("none" before the call)
    pc,              \* position of the call: "idle", "retry", "done"
    closure,         \* the closure handed to RetryOperator ("none" if none)
    state,           \* Retry Operator state machine (spec.md 4.2)
    now,             \* the clock
    start,           \* clock value when RetryOperator took its first attempt
    currentInterval, \* base interval of the backoff schedule
    attempts,        \* attempts of the closure made by RetryOperator
    lastDelay,       \* the backoff delay slept most recently (0 if none)
    lastBase,        \* the base interval that delay was drawn around
    nDelays,         \* number of backoff delays slept
    nTransient,      \* attempts whose remote call failed with a retryable text
    lastResp,        \* response of the most recent remote call
    opErr,           \* what the closure returned on its most recent attempt
    result,          \* what RetryOperator returned
    commonName,      \* CreateAliDNSRecord: argument
    dnsRecords,      \* CreateAliDNSRecord: the listed records
    foundDnsRecord,  \* CreateAliDNSRecord: index of the found record, 0 if nil
    recordId,        \* CreateAliDNSRecord: the named result, set by addRecord
    calls,           \* remote calls issued, per API, and how many succeeded
    updIds,          \* record ids passed to UpdateDomainRecord
    http,            \* DigiCert operations: what c.httpResponse returned
    ret              \* what the wrapper returned

vars == <<fn, pc, closure, state, now, start, currentInterval, attempts, lastDelay,
          lastBase, nDelays, nTransient, lastResp, opErr, result, commonName,
          dnsRecords, foundDnsRecord, recordId, calls, updIds, http, ret>>

----------------------------------------------------------------------------
(* Bounds of the model *)

\* longest error text given to the Error Classifier
MaxLen == 4
\* longest message of a DigiCert error entry
MaxMsgLen == 2
\* longest duration of one remote call, in ticks
MaxAttemptCost == 1
\* most records a listing returns
MaxRecords == 2
\* most error entries a DigiCert response body carries
MaxErrorMsgs == 2

----------------------------------------------------------------------------
(* Program constants *)

\* dnsrr.go: MAX_ELAPSED_TIME = 10 * time.Minute, here in ticks
MAX_ELAPSED_TIME == 10

\* The backoff schedule of the Retry Operator (spec.md 3, RetryPolicy:
\* initial interval, multiplier, max interval, jitter), in ticks.
InitialInterval == 2
MultiplierNum == 3
MultiplierDen == 2
MaxInterval == 4
\* randomization (jitter) factor RandNum / RandDen
RandNum == 1
RandDen == 2

----------------------------------------------------------------------------
(* Error texts and error values *)

Alphabet == {"a", "A", "b"}

RECURSIVE SeqsUpTo(_, _)
SeqsUpTo(S, n) ==
    IF n = 0 THEN {<<>>}
    ELSE LET shorter == SeqsUpTo(S, n - 1)
         IN  shorter \cup {Append(s, c) : s \in shorter, c \in S}

Texts == SeqsUpTo(Alphabet, MaxLen)

\* the error texts the remote services answer with in the runs of the wrappers:
\* two that match no known pattern and one that matches one
SampleTexts == {<<>>, <<"A", "b">>, <<"a", "b">>}

\* a nil error
NilErr == [nil |-> TRUE, permanent |-> FALSE, prefix |-> "", text |-> <<>>]

\* a plain error value with message text t
PlainErr(t) == [nil |-> FALSE, permanent |-> FALSE, prefix |-> "", text |-> t]

\* backoff.Permanent(err): the error tagged as not to be retried
Permanent(e) == [e EXCEPT !.permanent = TRUE]

\* fmt.Errorf(prefix + ": %v", err)
Wrapf(prefix, e) == [nil |-> FALSE, permanent |-> FALSE, prefix |-> prefix, text |-> e.text]

----------------------------------------------------------------------------
(* Error Classifier: alicloud.IsPermanentCommonError (spec.md 4.1) *)

\* The known non-retryable patterns, in the order they are tried.
PermanentErrors == << <<"a", "b">>, <<"b", "A", "b">> >>

\* strings.HasPrefix(SubSeq(text, i, ..), p), compared character by character
RECURSIVE HasPrefixAt(_, _, _, _)
HasPrefixAt(text, p, i, k) ==
    IF k > Len(p) THEN TRUE
    ELSE IF i + k - 1 > Len(text) THEN FALSE
    ELSE IF text[i + k - 1] # p[k] THEN FALSE
    ELSE HasPrefixAt(text, p, i, k + 1)

\* strings.Contains(text, p): scan the start positions left to right
RECURSIVE ContainsFrom(_, _, _)
ContainsFrom(text, p, i) ==
    IF i + Len(p) - 1 > Len(text) THEN FALSE
    ELSE IF HasPrefixAt(text, p, i, 1) THEN TRUE
    ELSE ContainsFrom(text, p, i + 1)

Contains(text, p) == ContainsFrom(text, p, 1)

\* the loop over the patterns: the first match answers true, no match false
RECURSIVE MatchesFrom(_, _)
MatchesFrom(text, j) ==
    IF j > Len(PermanentErrors) THEN FALSE
    ELSE IF Contains(text, PermanentErrors[j]) THEN TRUE
    ELSE MatchesFrom(text, j + 1)

IsPermanentCommonError(text) == MatchesFrom(text, 1)

----------------------------------------------------------------------------
(* Retry Operator: backoff_retry.RetryOperator (spec.md 4.2) *)

Terminal == {"Succeeded", "PermanentlyFailed", "TimedOut"}

\* NextInterval without the cap
NextInterval_Uncapped(cur) == (cur * MultiplierNum) \div MultiplierDen

\* the base interval after one more backoff: multiplied, capped at MaxInterval
NextInterval(cur) ==
    IF cur * MultiplierNum >= MaxInterval * MultiplierDen
    THEN MaxInterval
    ELSE (cur * MultiplierNum) \div MultiplierDen

\* the delays the jitter can draw around base interval cur
JitterDelays(cur) ==
    LET delta == (cur * RandNum) \div RandDen
    IN  (cur - delta) .. (cur + delta)

\* termination condition 3: elapsed time since the first attempt exceeds maxElapsed
BudgetExhausted(elapsed, maxElapsed) == elapsed > maxElapsed

\* The state the operator moves to once an attempt returned e after `elapsed`
\* ticks: the termination conditions in their priority order.
AfterAttempt(e, elapsed, maxElapsed) ==
    IF e.nil THEN "Succeeded"
    ELSE IF e.permanent THEN "PermanentlyFailed"
    ELSE IF BudgetExhausted(elapsed, maxElapsed) THEN "TimedOut"
    ELSE "Attempting"

NoResult == [kind |-> "none", err |-> NilErr]

\* What the operator returns in terminal state st after last error e: nil, or
\* the last error marked with the reason the operator gave up.
RetryResult(st, e) ==
    IF st = "Succeeded" THEN [kind |-> "success", err |-> NilErr]
    ELSE IF st = "PermanentlyFailed"
         THEN [kind |-> "permanent", err |-> e]
    ELSE [kind |-> "timeout", err |-> e]

----------------------------------------------------------------------------
(* Remote calls of the AliCloud DNS client *)

NewRecordIds == {"n1", "n2"}
CommonNames == {"example.com"}

NoResp == [api |-> "none", ok |-> TRUE, text |-> <<>>, id |-> ""]

\* the possible responses of one remote call of `api`
Responses(api) ==
    {[api |-> api, ok |-> FALSE, text |-> t, id |-> ""] : t \in SampleTexts}
    \cup (IF api = "AddDomainRecord"
          THEN {[api |-> api, ok |-> TRUE, text |-> <<>>, id |-> i] : i \in NewRecordIds}
          ELSE {[api |-> api, ok |-> TRUE, text |-> <<>>, id |-> ""]})

\* the error value of a response: err != nil exactly when the call failed
RespErr(resp) == IF resp.ok THEN NilErr ELSE PlainErr(resp.text)

\* AddDnsRecord: ("", err) on failure, (*response.Body.RecordId, nil) otherwise
AddDnsRecord(resp) ==
    IF ~RespErr(resp).nil
    THEN [recordID |-> "", err |-> RespErr(resp)]
    ELSE [recordID |-> resp.id, err |-> NilErr]

\* UpdateDnsRecord: the client's error, or nil
UpdateDnsRecord(resp) ==
    IF ~RespErr(resp).nil THEN RespErr(resp) ELSE NilErr

----------------------------------------------------------------------------
(* The closures handed to RetryOperator *)

\* deleteDnsRecord without the classification: the error is never tagged
deleteDnsRecord_Untagged(resp) == RespErr(resp)

\* deleteDnsRecord tagging every error Permanent
deleteDnsRecord_AlwaysPermanent(resp) ==
    IF ~RespErr(resp).nil THEN Permanent(RespErr(resp)) ELSE NilErr

\* DeleteDnsRecord's closure deleteDnsRecord
deleteDnsRecord(resp) ==
    LET err == RespErr(resp)
    IN  IF ~err.nil
        THEN IF IsPermanentCommonError(err.text) THEN Permanent(err) ELSE err
        ELSE NilErr

\* addRecord without the classification: the error is never tagged
addRecord_Untagged(resp) == AddDnsRecord(resp).err

\* addRecord with the classification inverted
addRecord_Inverted(resp) ==
    LET r == AddDnsRecord(resp)
    IN  IF ~r.err.nil
        THEN IF ~IsPermanentCommonError(r.err.text) THEN Permanent(r.err) ELSE r.err
        ELSE NilErr

\* CreateAliDNSRecord's closure addRecord; it also assigns recordId
addRecord(resp) ==
    LET r == AddDnsRecord(resp)
    IN  IF ~r.err.nil
        THEN IF IsPermanentCommonError(r.err.text) THEN Permanent(r.err) ELSE r.err
        ELSE NilErr

\* updateRecord tagging every error Permanent
updateRecord_AlwaysPermanent(resp) ==
    IF ~UpdateDnsRecord(resp).nil THEN Permanent(UpdateDnsRecord(resp)) ELSE NilErr

\* CreateAliDNSRecord's closure updateRecord
updateRecord(resp) ==
    LET err == UpdateDnsRecord(resp)
    IN  IF ~err.nil
        THEN IF IsPermanentCommonError(err.text) THEN Permanent(err) ELSE err
        ELSE NilErr

\* the remote API a closure calls
ApiOf(c) ==
    IF c = "deleteDnsRecord" THEN "DeleteDomainRecord"
    ELSE IF c = "addRecord" THEN "AddDomainRecord"
    ELSE "UpdateDomainRecord"

\* one invocation of closure c whose remote call answered resp
Invoke(c, resp) ==
    IF c = "deleteDnsRecord" THEN deleteDnsRecord(resp)
    ELSE IF c = "addRecord" THEN addRecord(resp)
    ELSE updateRecord(resp)

----------------------------------------------------------------------------
(* CreateAliDNSRecord: listing and lookup *)

RecordIdAt == <<"r1", "r2", "r3", "r4">>

\* what a listed record can look like, apart from its id
RecordShapes ==
    {[DomainName |-> "example.com", RR |-> "@", Type |-> "TXT"],
     [DomainName |-> "example.com", RR |-> "www", Type |-> "TXT"],
     [DomainName |-> "example.com", RR |-> "@", Type |-> "A"],
     [DomainName |-> "other.com", RR |-> "@", Type |-> "TXT"]}

\* the i-th listed record of shape sh
MkRecord(i, sh) ==
    [RecordId |-> RecordIdAt[i], DomainName |-> sh.DomainName, RR |-> sh.RR, Type |-> sh.Type]

\* the listings the provider can return: up to MaxRecords records, distinct ids
Listings ==
    {[i \in 1..Len(shs) |-> MkRecord(i, shs[i])] : shs \in SeqsUpTo(RecordShapes, MaxRecords)}

\* GetAllDnsRecords: (nil, err) when the call failed, else the listed records
GetAllDnsRecords(resp, listing) ==
    IF ~RespErr(resp).nil
    THEN [records |-> <<>>, err |-> RespErr(resp)]
    ELSE [records |-> listing, err |-> RespErr(resp)]

\* the test of the lookup loop without the check of the record type
IsVerificationRecord_AnyType(r, cn) ==
    r.DomainName = cn /\ r.RR = "@"

\* the test of the lookup loop
IsVerificationRecord(r, cn) ==
    r.DomainName = cn /\ r.RR = "@" /\ r.Type = "TXT"

\* the lookup loop: index of the first matching record, 0 when none (nil)
RECURSIVE FindFrom(_, _, _)
FindFrom(records, cn, i) ==
    IF i > Len(records) THEN 0
    ELSE IF IsVerificationRecord(records[i], cn) THEN i
    ELSE FindFrom(records, cn, i + 1)

FindDnsRecord(records, cn) == FindFrom(records, cn, 1)

----------------------------------------------------------------------------
(* DigiCert operations *)

MsgAlphabet == {"m", "%"}
Messages == SeqsUpTo(MsgAlphabet, MaxMsgLen)

\* fmt.Sprintf(format) with no operands: "%%" prints "%", "%" followed by a
\* verb prints "%!verb(MISSING)", a trailing "%" prints "%!(NOVERB)".
RECURSIVE SprintfFrom(_, _)
SprintfFrom(format, i) ==
    IF i > Len(format) THEN <<>>
    ELSE IF format[i] # "%" THEN <<format[i]>> \o SprintfFrom(format, i + 1)
    ELSE IF i = Len(format) THEN <<"%", "!", "(NOVERB)">>
    ELSE IF format[i + 1] = "%" THEN <<"%">> \o SprintfFrom(format, i + 2)
    ELSE <<"%", "!", format[i + 1], "(MISSING)">> \o SprintfFrom(format, i + 2)

\* fmt.Errorf(format)
Errorf(format) == PlainErr(SprintfFrom(format, 1))

\* response bodies: empty, not JSON, or an ErrorMsgList with its messages
Bodies ==
    {[len |-> 0, valid |-> TRUE, errors |-> <<>>],
     [len |-> 1, valid |-> FALSE, errors |-> <<>>]}
    \cup {[len |-> 1, valid |-> TRUE, errors |-> es] : es \in SeqsUpTo(Messages, MaxErrorMsgs)}

NoHttp == [err |-> NilErr, body |-> [len |-> 0, valid |-> TRUE, errors |-> <<>>]]

\* what c.httpResponse can return: an error, or a body
HttpResponses ==
    {[err |-> PlainErr(t), body |-> NoHttp.body] : t \in SampleTexts}
    \cup {[err |-> NilErr, body |-> b] : b \in Bodies}

\* json.Unmarshal(resp, &errMsgList)
Unmarshal(body) ==
    IF body.valid THEN NilErr ELSE PlainErr(<<"invalid character">>)

CancelOrderRequest(h) ==
    LET err == h.err
    IN  IF ~err.nil THEN err
        ELSE IF h.body.len # 0 THEN err
        ELSE NilErr

RevokeCert(h) ==
    IF ~h.err.nil THEN h.err
    ELSE IF h.body.len # 0
         THEN IF ~Unmarshal(h.body).nil THEN Unmarshal(h.body)
              ELSE IF Len(h.body.errors) # 0 THEN Errorf(h.body.errors[1])
              ELSE NilErr
    ELSE NilErr

RevokeAllCert(h) ==
    IF ~h.err.nil THEN h.err
    ELSE IF h.body.len # 0
         THEN IF ~Unmarshal(h.body).nil THEN Unmarshal(h.body)
              ELSE IF Len(h.body.errors) # 0 THEN Errorf(h.body.errors[1])
              ELSE NilErr
    ELSE NilErr

----------------------------------------------------------------------------
(* The state machine *)

NoCalls == [list |-> 0, add |-> 0, update |-> 0, delete |-> 0, ok |-> 0]
NoRet == [recordId |-> "", err |-> NilErr]

Init ==
    /\ fn = "none"
    /\ pc = "idle"
    /\ closure = "none"
    /\ state = "Idle"
    /\ now = 0
    /\ start = 0
    /\ currentInterval = InitialInterval
    /\ attempts = 0
    /\ lastDelay = 0
    /\ lastBase = 0
    /\ nDelays = 0
    /\ nTransient = 0
    /\ lastResp = NoResp
    /\ opErr = NilErr
    /\ result = NoResult
    /\ commonName = ""
    /\ dnsRecords = <<>>
    /\ foundDnsRecord = 0
    /\ recordId = ""
    /\ calls = NoCalls
    /\ updIds = {}
    /\ http = NoHttp
    /\ ret = NoRet

retryVars == <<state, start, currentInterval, attempts, lastDelay, lastBase, nDelays,
               nTransient, opErr, result>>
createVars == <<commonName, dnsRecords, foundDnsRecord, recordId>>

\* RetryOperator(c, maxElapsed) is entered at clock t: the first attempt is due
EnterRetry(c, t) ==
    /\ closure' = c
    /\ pc' = "retry"
    /\ state' = "Attempting"
    /\ start' = t
    /\ currentInterval' = InitialInterval
    /\ attempts' = 0
    /\ UNCHANGED <<lastDelay, lastBase, nDelays, nTransient, opErr, result>>

\* the count of calls after one more call of `api` answered resp
Counted(c, resp) ==
    LET k == IF resp.api = "DescribeDomainRecords" THEN "list"
             ELSE IF resp.api = "AddDomainRecord" THEN "add"
             ELSE IF resp.api = "UpdateDomainRecord" THEN "update"
             ELSE "delete"
        c1 == [c EXCEPT ![k] = @ + 1]
    IN  IF resp.ok /\ k \in {"add", "update"} THEN [c1 EXCEPT !.ok = @ + 1] ELSE c1

\* DeleteDnsRecord(id), up to its call of RetryOperator
CallDeleteDnsRecord ==
    /\ pc = "idle"
    /\ fn' = "DeleteDnsRecord"
    /\ EnterRetry("deleteDnsRecord", now)
    /\ UNCHANGED <<now, lastResp, createVars, calls, updIds, http, ret>>

\* CreateAliDNSRecord(commonName, token), up to its return or its call of
\* RetryOperator: the listing, the empty check and the lookup
CallCreateAliDNSRecord ==
    /\ pc = "idle"
    /\ \E cn \in CommonNames, resp \in Responses("DescribeDomainRecords"),
          listing \in Listings, cost \in 0..MaxAttemptCost :
        LET got == GetAllDnsRecords(resp, listing)
            found == FindDnsRecord(got.records, cn)
        IN  /\ resp.ok \/ listing = <<>>
            /\ fn' = "CreateAliDNSRecord"
            /\ commonName' = cn
            /\ now' = now + cost
            /\ lastResp' = resp
            /\ calls' = Counted(calls, resp)
            /\ dnsRecords' = got.records
            /\ UNCHANGED <<recordId, updIds, http>>
            /\ \/ /\ ~got.err.nil
                  /\ ret' = [recordId |-> "", err |-> got.err]
                  /\ pc' = "done"
                  /\ UNCHANGED <<closure, retryVars, foundDnsRecord>>
               \/ /\ got.err.nil
                  /\ Len(got.records) = 0
                  /\ ret' = [recordId |-> "",
                             err |-> Errorf(<<"domain name not found in Alidns">>)]
                  /\ pc' = "done"
                  /\ UNCHANGED <<closure, retryVars, foundDnsRecord>>
               \/ /\ got.err.nil
                  /\ Len(got.records) # 0
                  /\ found = 0
                  /\ foundDnsRecord' = found
                  /\ EnterRetry("addRecord", now + cost)
                  /\ UNCHANGED ret
               \/ /\ got.err.nil
                  /\ Len(got.records) # 0
                  /\ found # 0
                  /\ foundDnsRecord' = found
                  /\ EnterRetry("updateRecord", now + cost)
                  /\ UNCHANGED ret

\* One iteration of RetryOperator's loop: the closure is invoked (one remote
\* call); on success, a Permanent error or an exhausted budget the operator
\* returns, otherwise it sleeps the next backoff delay.
Attempt ==
    /\ pc = "retry"
    /\ state = "Attempting"
    /\ \E resp \in Responses(ApiOf(closure)), cost \in 0..MaxAttemptCost :
        LET e == Invoke(closure, resp)
            t == now + cost
            st == AfterAttempt(e, t - start, MAX_ELAPSED_TIME)
        IN  /\ attempts' = attempts + 1
            /\ lastResp' = resp
            /\ nTransient' = IF ~resp.ok /\ ~IsPermanentCommonError(resp.text)
                             THEN nTransient + 1 ELSE nTransient
            /\ opErr' = e
            /\ calls' = Counted(calls, resp)
            /\ recordId' = IF closure = "addRecord"
                           THEN AddDnsRecord(resp).recordID ELSE recordId
            /\ updIds' = IF closure = "updateRecord"
                         THEN updIds \cup {dnsRecords[foundDnsRecord].RecordId}
                         ELSE updIds
            /\ state' = st
            /\ \/ /\ st = "Attempting"
                  /\ \E d \in JitterDelays(currentInterval) :
                        /\ now' = t + d
                        /\ lastDelay' = d
                  /\ lastBase' = currentInterval
                  /\ nDelays' = nDelays + 1
                  /\ currentInterval' = NextInterval(currentInterval)
                  /\ UNCHANGED result
               \/ /\ st \in Terminal
                  /\ now' = t
                  /\ result' = RetryResult(st, e)
                  /\ UNCHANGED <<lastDelay, lastBase, nDelays, currentInterval>>
            /\ UNCHANGED <<fn, pc, closure, start, commonName, dnsRecords,
                           foundDnsRecord, http, ret>>

\* DeleteDnsRecord dropping RetryOperator's error
DeleteDnsRecordReturn_Swallows(r) == [recordId |-> "", err |-> NilErr]

\* DeleteDnsRecord, after RetryOperator returned
DeleteDnsRecordReturn(r) ==
    IF ~r.err.nil
    THEN [recordId |-> "",
          err |-> Wrapf("Alidns delete dns record. Failed to Delete dns record", r.err)]
    ELSE [recordId |-> "", err |-> NilErr]

\* CreateAliDNSRecord, after RetryOperator(addRecord) returned
AddRecordReturn(r, rid) ==
    IF ~r.err.nil
    THEN [recordId |-> "",
          err |-> Wrapf("Alidns create dns record. Failed to create verification TXT record", r.err)]
    ELSE [recordId |-> rid, err |-> NilErr]

\* CreateAliDNSRecord, after RetryOperator(updateRecord) returned
UpdateRecordReturn(r, found) ==
    IF ~r.err.nil
    THEN [recordId |-> "",
          err |-> Wrapf("Alidns update dns record. Failed to Update verification TXT record", r.err)]
    ELSE [recordId |-> found.RecordId, err |-> NilErr]

\* RetryOperator has returned: the wrapper turns its result into its own
Return ==
    /\ pc = "retry"
    /\ state \in Terminal
    /\ ret' = IF closure = "deleteDnsRecord" THEN DeleteDnsRecordReturn(result)
              ELSE IF closure = "addRecord" THEN AddRecordReturn(result, recordId)
              ELSE UpdateRecordReturn(result, dnsRecords[foundDnsRecord])
    /\ pc' = "done"
    /\ UNCHANGED <<fn, closure, now, lastResp, retryVars, createVars,
                   calls, updIds, http>>

\* one call of a DigiCert operation that got h from c.httpResponse
CallDigicert(name, h) ==
    /\ fn' = name
    /\ http' = h
    /\ pc' = "done"
    /\ UNCHANGED <<closure, now, lastResp, retryVars, createVars, calls, updIds>>

CallCancelOrderRequest ==
    /\ pc = "idle"
    /\ \E h \in HttpResponses :
          /\ CallDigicert("CancelOrderRequest", h)
          /\ ret' = [recordId |-> "", err |-> CancelOrderRequest(h)]

CallRevokeCert ==
    /\ pc = "idle"
    /\ \E h \in HttpResponses :
          /\ CallDigicert("RevokeCert", h)
          /\ ret' = [recordId |-> "", err |-> RevokeCert(h)]

CallRevokeAllCert ==
    /\ pc = "idle"
    /\ \E h \in HttpResponses :
          /\ CallDigicert("RevokeAllCert", h)
          /\ ret' = [recordId |-> "", err |-> RevokeAllCert(h)]

Next ==
    \/ CallDeleteDnsRecord
    \/ CallCreateAliDNSRecord
    \/ Attempt
    \/ Return
    \/ CallCancelOrderRequest
    \/ CallRevokeCert
    \/ CallRevokeAllCert

Spec == Init /\ [][Next]_vars

\* the scheduling of the code: RetryOperator's loop is one blocking call, it
\* keeps running until it returns
FairSpec == Spec /\ WF_vars(Attempt)

----------------------------------------------------------------------------
(* The closures and the Error Classifier on every error text up to MaxLen *)

Closures == {"deleteDnsRecord", "addRecord", "updateRecord"}

\* the responses of one remote call of `api`, over every text up to MaxLen
AllResponses(api) ==
    Responses(api) \cup {[api |-> api, ok |-> FALSE, text |-> t, id |-> ""] : t \in Texts}

InitClassify ==
    /\ fn = "none"
    /\ pc = "classify"
    /\ closure \in Closures
    /\ lastResp \in AllResponses(ApiOf(closure))
    /\ state = "Idle"
    /\ now = 0
    /\ start = 0
    /\ currentInterval = InitialInterval
    /\ attempts = 0
    /\ lastDelay = 0
    /\ lastBase = 0
    /\ nDelays = 0
    /\ nTransient = 0
    /\ opErr = NilErr
    /\ result = NoResult
    /\ commonName = ""
    /\ dnsRecords = <<>>
    /\ foundDnsRecord = 0
    /\ recordId = ""
    /\ calls = NoCalls
    /\ updIds = {}
    /\ http = NoHttp
    /\ ret = NoRet

\* one invocation of the closure on the response drawn
Classify ==
    /\ pc = "classify"
    /\ opErr' = Invoke(closure, lastResp)
    /\ pc' = "classified"
    /\ UNCHANGED <<fn, closure, state, now, start, currentInterval, attempts, lastDelay,
                   lastBase, nDelays, nTransient, lastResp, result, createVars, calls,
                   updIds, http, ret>>

SpecClassify == InitClassify /\ [][Classify]_vars

----------------------------------------------------------------------------
(* Properties *)

\* RetryOperator has made at least one attempt of a closure
Attempted == closure # "none" /\ attempts >= 1
\* the most recent remote call failed with a text the classifier calls permanent
LastPermanent == ~lastResp.ok /\ IsPermanentCommonError(lastResp.text)
\* the most recent remote call failed with any other text
LastTransient == ~lastResp.ok /\ ~IsPermanentCommonError(lastResp.text)
\* ticks between RetryOperator's first attempt and now
Elapsed == now - start
\* the largest delay the schedule can draw
MaxBackoff == MaxInterval + (MaxInterval * RandNum) \div RandDen

\* C1: a closure tags its error Permanent exactly when the classifier says so
\* of the error text; once an attempt returned a Permanent error the operator
\* is in PermanentlyFailed, returns that same error and attempts nothing more;
\* every earlier attempt failed retryably, so a Permanent first attempt is the
\* only attempt.
C1_PermanentInv ==
    Attempted =>
        /\ opErr.permanent <=> LastPermanent
        /\ LastPermanent =>
              /\ state = "PermanentlyFailed"
              /\ result.kind = "permanent"
              /\ result.err = opErr
              /\ ~result.err.nil
              /\ result.err.text = lastResp.text
              /\ attempts = nTransient + 1

\* C1: the invariant above in every state, and PermanentlyFailed is left by no
\* further attempt and no further remote call
C1_PermanentStops ==
    /\ []C1_PermanentInv
    /\ [][state = "PermanentlyFailed" =>
            (state' = state /\ attempts' = attempts /\ calls' = calls)]_vars

C1_Witness ==
    /\ closure = "deleteDnsRecord"
    /\ state = "PermanentlyFailed"
    /\ attempts = 1
    /\ pc = "done"

\* C2: when the remote call of the latest attempt succeeded, the operator is
\* in Succeeded and returned nil after exactly N+1 attempts and N backoff
\* delays, N the number of retryable failures before it (none slept for
\* N = 0); after a retryable failure it goes on unless the budget is exhausted.
C2_TransientThenSuccess ==
    Attempted =>
        /\ lastResp.ok =>
              /\ state = "Succeeded"
              /\ result.kind = "success"
              /\ result.err.nil
              /\ attempts = nTransient + 1
              /\ nDelays = nTransient
              /\ attempts = 1 => (lastDelay = 0 /\ Elapsed <= MaxAttemptCost)
        /\ LastTransient =>
              /\ state \in {"Attempting", "TimedOut"}
              /\ state = "TimedOut" => Elapsed > MAX_ELAPSED_TIME

C2_Witness ==
    /\ state = "Succeeded"
    /\ attempts = 4
    /\ nTransient = 3
    /\ nDelays = 3

\* C3 as amended: an operation that failed retryably on every attempt ends in
\* TimedOut with the last error, more than maxElapsed after the first attempt
\* and at most maxElapsed plus the last backoff delay plus the duration of
\* the last attempt after it; and the operator always terminates.
C3_TimeoutInv ==
    (Attempted /\ state \in Terminal /\ nTransient = attempts) =>
        /\ state = "TimedOut"
        /\ result.kind = "timeout"
        /\ ~result.err.nil
        /\ Elapsed >= MAX_ELAPSED_TIME
        /\ Elapsed <= MAX_ELAPSED_TIME + lastDelay + MaxAttemptCost

C4_NeverSwallows ==
    (Attempted /\ state \in Terminal) =>
        /\ result.kind \in {"success", "permanent", "timeout"}
        /\ result.kind = "success" <=> lastResp.ok
        /\ result.err.nil <=> lastResp.ok
        /\ ~lastResp.ok =>
              /\ result.err.text = lastResp.text
              /\ result.kind = "permanent" <=> LastPermanent
              /\ result.kind = "timeout" <=> LastTransient
        /\ pc = "done" =>
              /\ ret.err.nil <=> lastResp.ok
              /\ ~lastResp.ok => ret.err.text = lastResp.text

C4_Witness ==
    /\ pc = "done"
    /\ closure = "updateRecord"
    /\ result.kind = "timeout"
    /\ ~ret.err.nil
    /\ ret.err.text = <<"A", "b">>

\* C5: the operator's state only moves Idle -> Attempting -> one of the three
\* terminal states, where it stays and attempts nothing more; a successful
\* attempt ends in Succeeded and a Permanent failure in PermanentlyFailed
\* whatever the elapsed time, and TimedOut follows a retryable failure only.
C5_PriorityInv ==
    /\ state \in {"Idle", "Attempting"} \cup Terminal
    /\ state = "Idle" => attempts = 0
    /\ Attempted =>
          /\ lastResp.ok => state = "Succeeded"
          /\ LastPermanent => state = "PermanentlyFailed"
          /\ state = "TimedOut" => (LastTransient /\ Elapsed > MAX_ELAPSED_TIME)
          /\ state = "Succeeded" => lastResp.ok
          /\ state = "PermanentlyFailed" => LastPermanent

\* C5: the invariant above in every state, and the state moves only along
\* Idle -> Attempting -> terminal, a terminal state being absorbing
C5_StateMachine ==
    /\ []C5_PriorityInv
    /\ [][/\ state = "Idle" => state' \in {"Idle", "Attempting"}
          /\ state = "Attempting" => state' \in {"Attempting"} \cup Terminal
          /\ state \in Terminal =>
                (state' = state /\ attempts' = attempts /\ calls' = calls)]_vars

C5_Witness ==
    /\ state = "PermanentlyFailed"
    /\ Elapsed > MAX_ELAPSED_TIME
    /\ closure = "addRecord"

\* C6: on every error text that contains none of the known patterns as a
\* contiguous run of characters, the empty text included, each closure
\* returns the error untagged (Transient), with its text unchanged; on every
\* text the result is a well-formed error value.
KnownPatternIn(text) ==
    \E j \in DOMAIN PermanentErrors :
        \E i \in 1..Len(text) :
            /\ i + Len(PermanentErrors[j]) - 1 <= Len(text)
            /\ SubSeq(text, i, i + Len(PermanentErrors[j]) - 1) = PermanentErrors[j]

C6_UnknownIsTransient ==
    (pc = "classified" /\ ~lastResp.ok) =>
        /\ opErr.permanent \in BOOLEAN
        /\ ~opErr.nil
        /\ opErr.text = lastResp.text
        /\ ~KnownPatternIn(lastResp.text) => ~opErr.permanent

C6_Witness ==
    /\ pc = "classified"
    /\ closure = "addRecord"
    /\ lastResp.text = <<"A", "b", "b", "A">>
    /\ ~opErr.nil
    /\ ~opErr.permanent

\* C7: every remote call is made while RetryOperator is running, and a DNS
\* wrapper that returns an error after a retryable failure of its last remote
\* call does so only once the budget is exhausted.
C7_EveryCallRetried ==
    /\ lastResp.api # "none" => state # "Idle"
    /\ (pc = "done" /\ fn \in {"DeleteDnsRecord", "CreateAliDNSRecord"}
          /\ ~ret.err.nil /\ LastTransient) =>
            (state = "TimedOut" /\ Elapsed > MAX_ELAPSED_TIME)

\* C8 as amended: the base interval of the schedule starts at the initial
\* interval, never decreases and never exceeds the max interval; each delay
\* lies within the jitter band around its base interval.
C8_BaseInv ==
    /\ InitialInterval <= currentInterval
    /\ currentInterval <= MaxInterval
    /\ nDelays = 0 => currentInterval = InitialInterval
    /\ nDelays >= 1 =>
          /\ InitialInterval <= lastBase
          /\ lastBase <= currentInterval
          /\ lastDelay * RandDen >= lastBase * (RandDen - RandNum)
          /\ lastDelay * RandDen <= lastBase * (RandDen + RandNum)

IsFirstMatch(i) ==
    /\ i \in 1..Len(dnsRecords)
    /\ dnsRecords[i].DomainName = commonName
    /\ dnsRecords[i].RR = "@"
    /\ dnsRecords[i].Type = "TXT"
    /\ \A j \in 1..(i - 1) :
          ~(/\ dnsRecords[j].DomainName = commonName
            /\ dnsRecords[j].RR = "@"
            /\ dnsRecords[j].Type = "TXT")

C9_CreateOrUpdate ==
    fn = "CreateAliDNSRecord" =>
        /\ \A i \in 1..Len(dnsRecords) :
              IsFirstMatch(i) =>
                  /\ calls.add = 0
                  /\ updIds \subseteq {dnsRecords[i].RecordId}
                  /\ (pc = "done" /\ ret.err.nil) => ret.recordId = dnsRecords[i].RecordId
        /\ (Len(dnsRecords) # 0 /\ ~\E i \in 1..Len(dnsRecords) : IsFirstMatch(i)) =>
              /\ calls.update = 0
              /\ updIds = {}
              /\ (pc = "done" /\ ret.err.nil) =>
                    /\ lastResp.api = "AddDomainRecord"
                    /\ lastResp.ok
                    /\ ret.recordId = lastResp.id
        /\ Len(dnsRecords) = 0 =>
              /\ calls.add = 0
              /\ calls.update = 0
              /\ pc = "done"
              /\ ~ret.err.nil
        /\ (pc = "done" /\ ~ret.err.nil) => ret.recordId = ""
        /\ (pc = "done" /\ ret.err.nil) => calls.ok = 1
        /\ pc = "retry" => calls.ok = (IF state = "Succeeded" THEN 1 ELSE 0)

C9_Witness ==
    /\ fn = "CreateAliDNSRecord"
    /\ pc = "done"
    /\ ret.err.nil
    /\ foundDnsRecord = 2
    /\ ret.recordId = "r2"
    /\ calls.update = 3

\* C10: CancelOrderRequest returns nil exactly when the HTTP call succeeded
\* with an empty body; RevokeCert and RevokeAllCert return an error exactly
\* when the HTTP call failed, the non-empty body is not JSON or the body
\* carries an error entry, and then the first entry's message.
C10_EmptyBodyMeansSuccess ==
    pc = "done" =>
        /\ fn = "CancelOrderRequest" =>
              (ret.err.nil <=> (http.err.nil /\ http.body.len = 0))
        /\ fn \in {"RevokeCert", "RevokeAllCert"} =>
              /\ ~ret.err.nil <=>
                    \/ ~http.err.nil
                    \/ (http.body.len # 0 /\ ~http.body.valid)
                    \/ (http.body.len # 0 /\ Len(http.body.errors) # 0)
              /\ (http.err.nil /\ http.body.len # 0 /\ http.body.valid
                    /\ Len(http.body.errors) # 0) =>
                      ret.err.text = http.body.errors[1]

====
